---- MODULE Spec2Model ----
(***************************************************************************)
(* bug_inspector.py: the chunker (split_source_code), the bounded-retry    *)
(* API client (gpt_api_call), the file processor (process_file) and the    *)
(* source walker (inspect_source_code), as one sequential state machine.   *)
(* The remote endpoint and the filesystem are the environment: every       *)
(* requests.post either fails or answers, every result-artifact write      *)
(* either succeeds or raises.                                              *)
(***************************************************************************)
EXTENDS Integers, Sequences, FiniteSets, TLC

\* ------------------------------------------------------------ constants
\* bug_inspector.py:15 and :16
MAX_CHUNK_SIZE == 8000
RETRY_LIMIT == 3

\* ------------------------------------------------------------ bounds
\* longest prompt list of a prompt document
MaxPrompts == 2
\* number of (chunk, prompt) pairs of one run in which the environment
\* misbehaves (failed attempt, unusable response, failed artifact write)
MaxFaultyPairs == 1
\* chunker inputs: longest text (characters) and largest max_words
MaxTextLen == 5
MaxWordsArg == 3

\* ------------------------------------------------------------ text
Whitespace == {" ", "\n"}
Alphabet == {"a", "b"} \cup Whitespace

IsSpace(ch) == ch \in Whitespace

\* index of the last character of the word that starts at k
RECURSIVE WordEnd(_, _)
WordEnd(s, k) ==
    IF k = Len(s) \/ IsSpace(s[k + 1]) THEN k ELSE WordEnd(s, k + 1)

IsWordStart(s, k) == ~IsSpace(s[k]) /\ (k = 1 \/ IsSpace(s[k - 1]))

\* the words that start in s[lo..hi], in order
RECURSIVE WordsFrom(_, _, _)
WordsFrom(s, lo, hi) ==
    IF lo > hi THEN <<>>
    ELSE IF lo = hi
         THEN IF IsWordStart(s, lo) THEN <<SubSeq(s, lo, WordEnd(s, lo))>> ELSE <<>>
         ELSE LET mid == (lo + hi) \div 2
              IN  WordsFrom(s, lo, mid) \o WordsFrom(s, mid + 1, hi)

\* str.split(): the maximal runs of non-whitespace characters, in order
str_split(s) == WordsFrom(s, 1, Len(s))

\* " ".join(ws[lo..hi])
RECURSIVE JoinRange(_, _, _)
JoinRange(ws, lo, hi) ==
    IF lo > hi THEN <<>>
    ELSE IF lo = hi THEN ws[lo]
         ELSE LET mid == (lo + hi) \div 2
              IN  JoinRange(ws, lo, mid) \o <<" ">> \o JoinRange(ws, mid + 1, hi)

str_join(ws) == JoinRange(ws, 1, Len(ws))

Min(a, b) == IF a < b THEN a ELSE b

\* range(0, n, step) as the number of values it yields
RangeLen(n, step) == (n + step - 1) \div step

\* split_source_code with words[i:i+max_words+1]: neighbouring chunks overlap
split_source_code_overlap(source_code_, max_words_) ==
    LET words == str_split(source_code_)
    IN  [j \in 1..RangeLen(Len(words), max_words_) |->
            str_join(SubSeq(words, (j - 1) * max_words_ + 1,
                            Min(j * max_words_ + 1, Len(words))))]

\* split_source_code with range(0, len(words) + 1, max_words): a trailing
\* empty chunk whenever max_words divides the word count
split_source_code_extra(source_code_, max_words_) ==
    LET words == str_split(source_code_)
    IN  [j \in 1..RangeLen(Len(words) + 1, max_words_) |->
            str_join(SubSeq(words, (j - 1) * max_words_ + 1,
                            Min(j * max_words_, Len(words))))]

\* split_source_code: chunk j is " ".join(words[i:i+max_words]) for the
\* j-th i of range(0, len(words), max_words)
split_source_code(source_code_, max_words_) ==
    LET words == str_split(source_code_)
    IN  [j \in 1..RangeLen(Len(words), max_words_) |->
            str_join(SubSeq(words, (j - 1) * max_words_ + 1,
                            Min(j * max_words_, Len(words))))]

\* ------------------------------------------------------------ filesystem
\* The tree the runs walk: directory d holds a.py and, one level down,
\* sub/b.py; e.txt lies beside d. "nosuch" names nothing.
Files == {"d/a.py", "d/sub/b.py", "e.txt"}
Dirs == {"d", "d/sub"}
\* what a configuration may list: the directory, a file inside it, a file
\* beside it, a path that does not exist
SourceNames == {"d", "d/a.py", "e.txt", "nosuch"}

is_dir(p) == p \in Dirs
is_file(p) == p \in Files

\* the entries of each directory
Children(p) ==
    IF p = "d" THEN {"d/a.py", "d/sub"}
    ELSE IF p = "d/sub" THEN {"d/sub/b.py"} ELSE {}

\* Path.glob("*"): the entries of the directory itself
glob_shallow(p) == Children(p)

\* Path.rglob("*"): every entry below the directory, at any depth
RECURSIVE rglob(_)
rglob(p) == Children(p) \cup UNION {rglob(q) : q \in Children(p) \cap Dirs}

\* Path(file_path).stem
Stem(p) ==
    IF p = "d/a.py" THEN "a" ELSE IF p = "d/sub/b.py" THEN "b" ELSE "e"

\* words in each file: a.py is one word longer than a chunk, b.py is one
\* word, e.txt is whitespace only
FileWords(p) ==
    IF p = "d/a.py" THEN MAX_CHUNK_SIZE + 1 ELSE IF p = "d/sub/b.py" THEN 1 ELSE 0

FileText(p) ==
    IF FileWords(p) = 0 THEN <<" ", "\n">>
    ELSE [k \in 1..(2 * FileWords(p)) |-> IF k % 2 = 1 THEN "a" ELSE "\n"]

\* code_chunks of each file: split_source_code(file.read(), MAX_CHUNK_SIZE)
FileChunks == [p \in Files |-> split_source_code(FileText(p), MAX_CHUNK_SIZE)]

\* f"{input_dir}/chunk_{chunk_idx}_{stem}.txt", relative to input_dir
EchoName(p, c) == "chunk_" \o ToString(c) \o "_" \o Stem(p) \o ".txt"

\* the input_source lists of the configurations: at most two sources
SourceLists ==
    {<<>>} \cup {<<s>> : s \in SourceNames} \cup {<<s, t>> : s, t \in SourceNames}

EchoNames == UNION {{EchoName(p, c) : c \in 1..Len(FileChunks[p])} : p \in Files}

\* the state of the filesystem, <<unreadable source files, echo files that
\* cannot be created>>: at most one path is broken
BrokenPaths ==
    {<<{}, {}>>} \cup {<<{p}, {}>> : p \in Files} \cup {<<{}, {n}>> : n \in EchoNames}

\* ------------------------------------------------------------ environment
\* str(e) of the exception that the k-th request of a call raises
\* (requests.post, raise_for_status or response.json()); every failure is
\* an exception of its own
APIError(k) == "request " \o ToString(k) \o " failed"

\* message contents the model returns: the first is YAML, the second is not
Contents == {"verdict: ok", "verdict: [ok"}

\* response bodies: a completion, or a JSON body without "choices"
Completion(c) == [choices |-> <<[message |-> [content |-> c]]>>]
Responses == {Completion(c) : c \in Contents} \cup {[error |-> "overloaded"]}

\* yaml.safe_load raises yaml.YAMLError on the text
YAMLError(c) == c = "verdict: [ok"
\* yaml.safe_load's value on a text it accepts
safe_load(c) == [verdict |-> "ok"]
\* yaml.dump(data, file): the document written for data
yaml_dump(data) == <<"yaml", data>>

\* str(e) of the exception result["choices"][0]["message"]["content"] raises
NoContentError == "KeyError 'choices'"
\* str(e) of the exception open(output_file_path, "w") raises
WriteError == "OSError result file"

\* ------------------------------------------------------------ state
VARIABLES
    \* configuration and filesystem, fixed for a run
    input_sources, prompts, unreadable, unwritable_echo,
    \* inspect_source_code
    pc, src, in_dir, pending, results, combined,
    \* process_file
    file_path, chunk_idx, i, file_results, echoes, artifacts,
    \* gpt_api_call
    retries, errs, response, api_result,
    \* history: what the run has done so far
    attempts, called, failed, last, fstatus, file_maps, visited,
    combined_writes, pair_faults, cur_fault, run, prev_sources, prev_keys,
    \* the chunker called on its own
    source_code, max_words, chunks, split_done

world == <<input_sources, prompts, unreadable, unwritable_echo>>
walker == <<src, in_dir, pending, results, combined>>
processor == <<file_path, chunk_idx, i, file_results, echoes, artifacts>>
client == <<retries, errs, response, api_result>>
history == <<attempts, called, failed, last, fstatus, file_maps, visited,
             combined_writes, pair_faults, cur_fault, run, prev_sources, prev_keys>>
chunker == <<source_code, max_words, chunks, split_done>>
vars == <<world, pc, walker, processor, client, history, chunker>>

\* ------------------------------------------------------------ helpers
\* a dict with no key
EmptyDict == [k \in {} |-> k]
\* d[k] = v
DictSet(d, k, v) == [x \in DOMAIN d \cup {k} |-> IF x = k THEN v ELSE d[x]]
\* an update that keeps the value a key already has
DictUpdateKeepFirst(d, e) ==
    [x \in DOMAIN d \cup DOMAIN e |-> IF x \in DOMAIN d THEN d[x] ELSE e[x]]

\* d.update(e): e's keys win
DictUpdate(d, e) ==
    [x \in DOMAIN d \cup DOMAIN e |-> IF x \in DOMAIN e THEN e[x] ELSE d[x]]

\* f"{stem}_chunk_{chunk_idx}_prompt_{i}" with the 0-based indices of a
\* plain enumerate(...)
ResultKeyZeroBased(stem, c, p) ==
    stem \o "_chunk_" \o ToString(c - 1) \o "_prompt_" \o ToString(p - 1)

\* f"{Path(file_path).stem}_chunk_{chunk_idx}_prompt_{i}"
ResultKey(stem, c, p) ==
    stem \o "_chunk_" \o ToString(c) \o "_prompt_" \o ToString(p)

\* one entry of the prompt document
Prompt == [system |-> "You review code.", user |-> "List the bugs."]

\* len(code_chunks) of the file being processed
NumChunks == Len(FileChunks[file_path])

\* the key of the pair being processed
CurKey == ResultKey(Stem(file_path), chunk_idx, i)

\* no response received, no value returned yet
NoResponse == [none |-> "none"]
NoResult == [raised |-> FALSE, exc |-> "", body |-> NoResponse]
NoLast == [c |-> 0, p |-> 0, key |-> "", kind |-> "none", raw |-> ""]
NoArtifact == <<"absent">>

\* the environment may disturb the current pair
FaultAllowed == cur_fault \/ pair_faults < MaxFaultyPairs
Fault ==
    /\ FaultAllowed
    /\ pair_faults' = IF cur_fault THEN pair_faults ELSE pair_faults + 1

\* ------------------------------------------------------------ Init
RunInit ==
    /\ src = 1 /\ in_dir = FALSE /\ pending = {}
    /\ results = EmptyDict /\ combined = NoArtifact
    /\ file_path = "" /\ chunk_idx = 0 /\ i = 0 /\ file_results = EmptyDict
    /\ echoes = {} /\ artifacts = EmptyDict
    /\ retries = 0 /\ errs = <<>> /\ response = NoResponse /\ api_result = NoResult
    /\ attempts = 0 /\ called = {} /\ failed = {} /\ last = NoLast
    /\ fstatus = "none" /\ file_maps = <<>> /\ visited = <<>> /\ combined_writes = 0
    /\ pair_faults = 0 /\ cur_fault = FALSE

ChunkerIdle ==
    /\ source_code = <<>> /\ max_words = 1 /\ chunks = <<>> /\ split_done = FALSE

Init ==
    /\ input_sources \in SourceLists
    /\ prompts \in {[j \in 1..n |-> Prompt] : n \in 0..MaxPrompts}
    /\ \E b \in BrokenPaths : unreadable = b[1] /\ unwritable_echo = b[2]
    /\ RunInit /\ pc = "source"
    /\ run = 1 /\ prev_sources = <<>> /\ prev_keys = {}
    /\ ChunkerIdle

\* ------------------------------------------------------------ inspect_source_code
\* for source in input_sources: source_path.is_dir()
VisitDirectory ==
    /\ pc = "source" /\ src <= Len(input_sources)
    /\ is_dir(input_sources[src])
    /\ visited' = Append(visited, input_sources[src])
    /\ pending' = rglob(input_sources[src]) /\ in_dir' = TRUE /\ pc' = "rglob"
    /\ UNCHANGED <<world, src, results, combined, processor, client, chunker>>
    /\ UNCHANGED <<attempts, called, failed, last, fstatus, file_maps, combined_writes,
                   pair_faults, cur_fault, run, prev_sources, prev_keys>>

\* elif source_path.is_file(): process_file(source, ...)
VisitFile ==
    /\ pc = "source" /\ src <= Len(input_sources)
    /\ ~is_dir(input_sources[src]) /\ is_file(input_sources[src])
    /\ visited' = Append(visited, input_sources[src])
    /\ file_path' = input_sources[src] /\ pc' = "open"
    /\ UNCHANGED <<world, walker, chunk_idx, i, file_results, echoes, artifacts,
                   client, chunker>>
    /\ UNCHANGED <<attempts, called, failed, last, fstatus, file_maps, combined_writes,
                   pair_faults, cur_fault, run, prev_sources, prev_keys>>

\* a break in the else branch: the sources after an invalid one are dropped
AfterInvalidBreak(k) == Len(input_sources) + 1

\* the else branch only prints: the loop goes on with the next source
AfterInvalid(k) == k + 1

\* else: print(f"Invalid source: {source}")
SkipInvalid ==
    /\ pc = "source" /\ src <= Len(input_sources)
    /\ ~is_dir(input_sources[src]) /\ ~is_file(input_sources[src])
    /\ visited' = Append(visited, input_sources[src])
    /\ src' = AfterInvalid(src)
    /\ UNCHANGED <<world, pc, in_dir, pending, results, combined, processor,
                   client, chunker>>
    /\ UNCHANGED <<attempts, called, failed, last, fstatus, file_maps, combined_writes,
                   pair_faults, cur_fault, run, prev_sources, prev_keys>>

\* for file_path in source_path.rglob("*"): if file_path.is_file():
\* process_file(file_path, ...). The order of the walk is the filesystem's.
NextEntry ==
    /\ pc = "rglob"
    /\ \E e \in pending :
        /\ is_file(e)
        /\ pending' = pending \ {e}
        /\ file_path' = e
    /\ pc' = "open"
    /\ UNCHANGED <<world, src, in_dir, results, combined, chunk_idx, i,
                   file_results, echoes, artifacts, client, history, chunker>>

\* an entry of the walk that is no regular file
SkipEntry ==
    /\ pc = "rglob"
    /\ \E e \in pending :
        /\ ~is_file(e)
        /\ pending' = pending \ {e}
    /\ UNCHANGED <<world, pc, src, in_dir, results, combined, processor, client,
                   history, chunker>>

\* the walk of the directory is exhausted: the next source
EndDirectory ==
    /\ pc = "rglob" /\ pending = {}
    /\ in_dir' = FALSE /\ src' = src + 1 /\ pc' = "source"
    /\ UNCHANGED <<world, pending, results, combined, processor, client, history,
                   chunker>>

\* with open(combined_results_path, "w"): yaml.dump(results, ...)
SaveCombined ==
    /\ pc = "source" /\ src > Len(input_sources)
    /\ combined' = yaml_dump(results)
    /\ combined_writes' = combined_writes + 1
    /\ pc' = "done"
    /\ UNCHANGED <<world, src, in_dir, pending, results, processor, client, chunker>>
    /\ UNCHANGED <<attempts, called, failed, last, fstatus, file_maps, visited,
                   pair_faults, cur_fault, run, prev_sources, prev_keys>>

\* ------------------------------------------------------------ process_file
\* return results, then results.update(file_results) in the caller, which
\* goes on with its loop
ReturnResults(status) ==
    /\ results' = DictUpdate(results, file_results)
    /\ file_maps' = Append(file_maps, file_results)
    /\ fstatus' = status
    /\ IF in_dir THEN pc' = "rglob" /\ src' = src
                 ELSE pc' = "source" /\ src' = src + 1
    /\ UNCHANGED <<in_dir, pending, combined>>

\* gpt_api_call(system_prompt, user_prompt) is entered with retries = 0 for
\* prompt p of the current chunk
EnterCall(p) ==
    /\ i' = p /\ pc' = "api"
    /\ retries' = 0 /\ errs' = <<>> /\ response' = NoResponse
    /\ api_result' = NoResult
    /\ attempts' = 0 /\ cur_fault' = FALSE
    /\ called' = called \cup {<<chunk_idx', p>>}

\* open(file_path, "r") or file.read() raises: the outer handler logs and
\* the empty results are returned
ReadFails ==
    /\ pc = "open" /\ file_path \in unreadable
    /\ file_results' = EmptyDict /\ chunk_idx' = 0 /\ i' = 0
    /\ called' = {} /\ failed' = {} /\ last' = NoLast
    /\ results' = DictUpdate(results, EmptyDict)
    /\ file_maps' = Append(file_maps, EmptyDict)
    /\ fstatus' = "unreadable"
    /\ IF in_dir THEN pc' = "rglob" /\ src' = src
                 ELSE pc' = "source" /\ src' = src + 1
    /\ UNCHANGED <<world, in_dir, pending, combined, file_path, echoes, artifacts,
                   client, chunker>>
    /\ UNCHANGED <<attempts, visited, combined_writes, pair_faults, cur_fault, run,
                   prev_sources, prev_keys>>

\* results = {}; source_code = file.read();
\* code_chunks = split_source_code(source_code, MAX_CHUNK_SIZE)
ReadFile ==
    /\ pc = "open" /\ file_path \notin unreadable
    /\ file_results' = EmptyDict /\ chunk_idx' = 1 /\ i' = 0
    /\ called' = {} /\ failed' = {} /\ last' = NoLast
    /\ fstatus' = "running" /\ pc' = "chunk"
    /\ UNCHANGED <<world, walker, file_path, echoes, artifacts, client, chunker>>
    /\ UNCHANGED <<attempts, file_maps, visited, combined_writes, pair_faults,
                   cur_fault, run, prev_sources, prev_keys>>

\* the echo file of the chunk cannot be written: the exception leaves both
\* loops, the outer handler logs and the results so far are returned
EchoFails ==
    /\ pc = "chunk" /\ chunk_idx <= NumChunks
    /\ EchoName(file_path, chunk_idx) \in unwritable_echo
    /\ ReturnResults("echo_failed")
    /\ UNCHANGED <<world, processor, client, chunker>>
    /\ UNCHANGED <<attempts, called, failed, last, visited, combined_writes,
                   pair_faults, cur_fault, run, prev_sources, prev_keys>>

\* input_file.write(chunk), then the first prompt (or, without prompts, the
\* next chunk)
WriteEcho ==
    /\ pc = "chunk" /\ chunk_idx <= NumChunks
    /\ EchoName(file_path, chunk_idx) \notin unwritable_echo
    /\ echoes' = echoes \cup {EchoName(file_path, chunk_idx)}
    /\ IF Len(prompts) = 0
       THEN /\ chunk_idx' = chunk_idx + 1
            /\ UNCHANGED <<pc, i, client, attempts, cur_fault, called>>
       ELSE /\ chunk_idx' = chunk_idx
            /\ EnterCall(1)
    /\ UNCHANGED <<world, walker, file_path, file_results, artifacts, chunker>>
    /\ UNCHANGED <<failed, last, fstatus, file_maps, visited, combined_writes, pair_faults,
                   run, prev_sources, prev_keys>>

\* the chunk loop is exhausted: return results
EndOfChunks ==
    /\ pc = "chunk" /\ chunk_idx > NumChunks
    /\ ReturnResults("completed")
    /\ UNCHANGED <<world, processor, client, chunker>>
    /\ UNCHANGED <<attempts, called, failed, last, visited, combined_writes,
                   pair_faults, cur_fault, run, prev_sources, prev_keys>>

\* ------------------------------------------------------------ gpt_api_call
\* if retries <= RETRY_LIMIT: one retry too many
ShouldRetryInclusive(r) == r <= RETRY_LIMIT

\* if retries < RETRY_LIMIT: retry, else: raise
ShouldRetry(r) == r < RETRY_LIMIT

\* the exception of the outermost frame instead of the innermost
ReraisedFirst(es) == es[1]

\* the bare raise of the innermost frame re-raises the exception that frame
\* caught; the frames above it are inside their own handlers and let it pass
Reraised(es) == es[Len(es)]

\* a response the processor can turn into a parsed result
Usable(r) ==
    /\ "choices" \in DOMAIN r
    /\ ~YAMLError(r.choices[1].message.content)

\* requests.post, raise_for_status or response.json() raises
AttemptFails ==
    /\ pc = "api"
    /\ Fault /\ cur_fault' = TRUE
    /\ attempts' = attempts + 1
    /\ errs' = Append(errs, APIError(attempts'))
    /\ IF ShouldRetry(retries)
       THEN /\ retries' = retries + 1
            /\ UNCHANGED <<pc, api_result>>
       ELSE /\ api_result' = [raised |-> TRUE, exc |-> Reraised(errs'),
                              body |-> NoResult.body]
            /\ pc' = "returned"
            /\ UNCHANGED retries
    /\ UNCHANGED <<world, walker, processor, response, chunker>>
    /\ UNCHANGED <<called, failed, last, fstatus, file_maps, visited, combined_writes, run,
                   prev_sources, prev_keys>>

\* return response.json(), through every frame of the recursion
AttemptSucceeds ==
    /\ pc = "api"
    /\ attempts' = attempts + 1
    /\ \E r \in Responses :
        /\ response' = r
        /\ api_result' = [raised |-> FALSE, exc |-> "", body |-> r]
        /\ IF Usable(r) THEN UNCHANGED <<pair_faults, cur_fault>>
                        ELSE Fault /\ cur_fault' = TRUE
    /\ pc' = "returned"
    /\ UNCHANGED <<world, walker, processor, retries, errs, chunker>>
    /\ UNCHANGED <<called, failed, last, fstatus, file_maps, visited, combined_writes, run,
                   prev_sources, prev_keys>>

\* ------------------------------------------------------------ process_file, one pair
\* result["choices"][0]["message"]["content"] exists
HasContent(body) == "choices" \in DOMAIN body /\ Len(body.choices) >= 1
ContentOf(body) == body.choices[1].message.content

\* {"error": str(e)}
ErrorEntry(reason) == [error |-> reason]

\* the record of an unparsable text without its raw_output
ParsedResultNoRaw(c) ==
    IF YAMLError(c) THEN [error |-> "YAML parsing failed"] ELSE safe_load(c)

\* yaml.safe_load(result_yaml), or on yaml.YAMLError the error record
ParsedResult(c) ==
    IF YAMLError(c)
    THEN [error |-> "YAML parsing failed", raw_output |-> c]
    ELSE safe_load(c)

\* the end of the prompt loop's body: the next prompt, or the next chunk
NextPair ==
    IF i < Len(prompts)
    THEN /\ chunk_idx' = chunk_idx
         /\ EnterCall(i + 1)
    ELSE /\ chunk_idx' = chunk_idx + 1 /\ pc' = "chunk"
         /\ retries' = 0 /\ errs' = <<>> /\ response' = NoResponse
         /\ api_result' = NoResult
         /\ attempts' = 0 /\ cur_fault' = FALSE
         /\ UNCHANGED <<i, called>>

\* a handler that leaves the prompt loop: the next chunk
AfterFailureBreak ==
    /\ chunk_idx' = chunk_idx + 1 /\ pc' = "chunk"
    /\ retries' = 0 /\ errs' = <<>> /\ response' = NoResponse
    /\ api_result' = NoResult
    /\ attempts' = 0 /\ cur_fault' = FALSE
    /\ UNCHANGED <<i, called>>

\* except Exception as e: the handler falls through to the loop
AfterFailure == NextPair

\* gpt_api_call raised, or the response has no content: the handler records
\* {"error": str(e)} under the pair's key
RecordFailure ==
    /\ pc = "returned"
    /\ api_result.raised \/ ~HasContent(api_result.body)
    /\ LET reason == IF api_result.raised THEN api_result.exc ELSE NoContentError
       IN  /\ file_results' = DictSet(file_results, CurKey, ErrorEntry(reason))
           /\ last' = [c |-> chunk_idx, p |-> i, key |-> CurKey,
                        kind |-> IF api_result.raised THEN "api_failed"
                                 ELSE "no_content",
                        raw |-> ""]
    /\ failed' = failed \cup {<<chunk_idx, i>>}
    /\ AfterFailure
    /\ UNCHANGED <<world, walker, file_path, echoes, artifacts, chunker>>
    /\ UNCHANGED <<fstatus, file_maps, visited, combined_writes, pair_faults, run,
                   prev_sources, prev_keys>>

\* the content is parsed (or replaced by the error record), stored under
\* the pair's key and dumped to result_{key}.yaml
SaveResult ==
    /\ pc = "returned"
    /\ ~api_result.raised /\ HasContent(api_result.body)
    /\ LET c == ContentOf(api_result.body)
       IN  /\ file_results' = DictSet(file_results, CurKey, ParsedResult(c))
           /\ artifacts' = DictSet(artifacts, CurKey, yaml_dump(ParsedResult(c)))
           /\ last' = [c |-> chunk_idx, p |-> i, key |-> CurKey,
                        kind |-> IF YAMLError(c) THEN "yaml_failed" ELSE "parsed",
                        raw |-> c]
    /\ NextPair
    /\ UNCHANGED <<world, walker, file_path, echoes, chunker>>
    /\ UNCHANGED <<failed, fstatus, file_maps, visited, combined_writes, pair_faults, run,
                   prev_sources, prev_keys>>

\* the record is stored, then open(output_file_path, "w") raises: the
\* handler replaces the stored record by {"error": str(e)}
SaveFails ==
    /\ pc = "returned"
    /\ ~api_result.raised /\ HasContent(api_result.body)
    /\ Fault
    /\ LET c == ContentOf(api_result.body)
           stored == DictSet(file_results, CurKey, ParsedResult(c))
       IN  /\ file_results' = DictSet(stored, CurKey, ErrorEntry(WriteError))
           /\ last' = [c |-> chunk_idx, p |-> i, key |-> CurKey,
                        kind |-> IF YAMLError(c) THEN "yaml_failed_unsaved"
                                 ELSE "parsed_unsaved",
                        raw |-> c]
    /\ failed' = failed \cup {<<chunk_idx, i>>}
    /\ AfterFailure
    /\ UNCHANGED <<world, walker, file_path, echoes, artifacts, chunker>>
    /\ UNCHANGED <<fstatus, file_maps, visited, combined_writes, run, prev_sources, prev_keys>>

\* ------------------------------------------------------------ main
\* the directories a file lies in, at any depth
DirsAbove(p) ==
    IF p = "d/a.py" THEN {"d"} ELSE IF p = "d/sub/b.py" THEN {"d", "d/sub"} ELSE {}

\* the regular files below a directory
FilesUnder(d) == {p \in Files : d \in DirsAbove(p)}

\* every order in which the files of a set can be listed
Listings(S) ==
    {q \in [1..Cardinality(S) -> S] : \A x, y \in DOMAIN q : q[x] = q[y] => x = y}

\* main() once more, on a configuration that lists the files of the
\* directory the first run was given; the fresh timestamp gives it empty
\* input and output directories
RunAgain ==
    /\ pc = "done" /\ run = 1
    /\ Len(input_sources) = 1 /\ is_dir(input_sources[1])
    /\ input_sources' \in Listings(FilesUnder(input_sources[1]))
    /\ prev_sources' = input_sources /\ prev_keys' = DOMAIN results
    /\ run' = 2
    /\ pc' = "source" /\ src' = 1 /\ in_dir' = FALSE /\ pending' = {}
    /\ results' = EmptyDict /\ combined' = NoArtifact
    /\ file_path' = "" /\ chunk_idx' = 0 /\ i' = 0 /\ file_results' = EmptyDict
    /\ echoes' = {} /\ artifacts' = EmptyDict
    /\ retries' = 0 /\ errs' = <<>> /\ response' = NoResponse
    /\ api_result' = NoResult
    /\ attempts' = 0 /\ called' = {} /\ failed' = {} /\ last' = NoLast
    /\ fstatus' = "none" /\ file_maps' = <<>> /\ visited' = <<>>
    /\ combined_writes' = 0
    /\ pair_faults' = 0 /\ cur_fault' = FALSE
    /\ UNCHANGED <<prompts, unreadable, unwritable_echo, chunker>>

Next ==
    \/ VisitDirectory \/ VisitFile \/ SkipInvalid
    \/ NextEntry \/ SkipEntry \/ EndDirectory
    \/ ReadFails \/ ReadFile
    \/ EchoFails \/ WriteEcho \/ EndOfChunks
    \/ AttemptFails \/ AttemptSucceeds
    \/ RecordFailure \/ SaveResult \/ SaveFails
    \/ SaveCombined \/ RunAgain

Spec == Init /\ [][Next]_vars

\* the interpreter always runs the next statement of a run that has one
LiveSpec == Spec /\ WF_vars(Next)

\* ------------------------------------------------------------ the chunker alone
\* split_source_code called on any short text with any small max_words
ChunkInit ==
    /\ source_code \in UNION {[1..n -> Alphabet] : n \in 0..MaxTextLen}
    /\ max_words \in 1..MaxWordsArg
    /\ chunks = <<>> /\ split_done = FALSE
    /\ input_sources = <<>> /\ prompts = <<>>
    /\ unreadable = {} /\ unwritable_echo = {}
    /\ RunInit /\ pc = "split"
    /\ run = 1 /\ prev_sources = <<>> /\ prev_keys = {}

SplitCall ==
    /\ pc = "split" /\ ~split_done
    /\ chunks' = split_source_code(source_code, max_words)
    /\ split_done' = TRUE
    /\ UNCHANGED <<world, pc, walker, processor, client, history, source_code,
                   max_words>>

ChunkNext == SplitCall

ChunkSpec == ChunkInit /\ [][ChunkNext]_vars

\* ------------------------------------------------------------ claims
\* the words of a sequence of chunks, chunk after chunk
RECURSIVE WordsOfChunks(_)
WordsOfChunks(cs) ==
    IF cs = <<>> THEN <<>>
    ELSE WordsOfChunks(SubSeq(cs, 1, Len(cs) - 1)) \o str_split(cs[Len(cs)])

\* C9: splitting every chunk on whitespace and concatenating the word
\* lists in chunk order gives the whitespace-split word sequence of the
\* input: nothing lost, duplicated or reordered, no overlap.
C9_WordsPreserved ==
    split_done => WordsOfChunks(chunks) = str_split(source_code)

\* three words with irregular whitespace, split into two chunks
C9_Witness ==
    /\ split_done /\ Len(chunks) = 2 /\ max_words = 2
    /\ Len(str_split(source_code)) = 3
    /\ \E k \in 1..Len(source_code) : source_code[k] = "\n"

\* C10: a text of W words gives ceil(W / max_words) chunks, none empty,
\* each of at most max_words words, all but the last of exactly max_words.
C10_ChunkSizes ==
    split_done =>
        LET W == Len(str_split(source_code))
            n == Len(chunks)
        IN  /\ n * max_words >= W
            /\ (n = 0 /\ W = 0) \/ (n >= 1 /\ (n - 1) * max_words < W)
            /\ \A k \in 1..n :
                /\ chunks[k] # <<>>
                /\ Len(str_split(chunks[k])) <= max_words
                /\ Len(str_split(chunks[k])) >= 1
                /\ k < n => Len(str_split(chunks[k])) = max_words

\* a full chunk followed by a shorter last one
C10_Witness ==
    /\ split_done /\ max_words = 2 /\ Len(chunks) = 2
    /\ Len(str_split(chunks[1])) = 2 /\ Len(str_split(chunks[2])) = 1

\* C1: a call whose every request fails makes exactly 1 + RETRY_LIMIT
\* requests (RETRY_LIMIT retries) and raises the last failure; a call whose
\* k-th request succeeds returns that response after exactly k requests.
C1_RetryContract ==
    /\ attempts <= 1 + RETRY_LIMIT
    /\ pc = "api" => attempts = retries /\ Len(errs) = attempts
    /\ (pc = "returned" /\ api_result.raised) =>
            /\ attempts = 1 + RETRY_LIMIT /\ retries = RETRY_LIMIT
            /\ Len(errs) = attempts
            /\ api_result.exc = APIError(1 + RETRY_LIMIT)
    /\ (pc = "returned" /\ ~api_result.raised) =>
            /\ attempts = Len(errs) + 1
            /\ api_result.body = response /\ response \in Responses

\* four failed requests, the fourth failure reaches the caller
C1_Witness ==
    /\ pc = "returned" /\ api_result.raised /\ attempts = 4

\* process_file has returned from a file it could read
Returned == fstatus \in {"completed", "echo_failed"} /\ pc # "open"

\* the key the specification gives the pair (c, p) of a file
PairKey(path, c, p) ==
    Stem(path) \o "_chunk_" \o ToString(c) \o "_prompt_" \o ToString(p)

\* an entry {error: reason} and nothing else
IsErrorEntry(r) == DOMAIN r = {"error"}

\* (c2, p2) comes after (c, p) in the order of the two loops
Later(c2, p2, c, p) == c2 > c \/ (c2 = c /\ p2 > p)

\* the chunks of a file up to the first one whose echo file cannot be
\* written
Echoable(path) ==
    {c \in 1..Len(FileChunks[path]) :
        \A c1 \in 1..c : EchoName(path, c1) \notin unwritable_echo}

\* C2 as stated: after a pair failed, its key holds an error entry and the
\* API call of every later prompt of the chunk and of every later chunk of
\* the file has been made.
C2_Original ==
    Returned =>
        \A f \in failed :
            /\ PairKey(file_path, f[1], f[2]) \in DOMAIN file_results
            /\ IsErrorEntry(file_results[PairKey(file_path, f[1], f[2])])
            /\ \A c2 \in 1..NumChunks, p2 \in 1..Len(prompts) :
                    Later(c2, p2, f[1], f[2]) => <<c2, p2>> \in called

\* C2 as amended: after a pair failed, its key holds an error entry and the
\* API call of every later prompt of the chunk has been made, and that of
\* every prompt of every later chunk up to the first chunk whose echo file
\* cannot be written.
C2_FailureContained ==
    Returned =>
        \A f \in failed :
            /\ PairKey(file_path, f[1], f[2]) \in DOMAIN file_results
            /\ IsErrorEntry(file_results[PairKey(file_path, f[1], f[2])])
            /\ \A c2 \in Echoable(file_path), p2 \in 1..Len(prompts) :
                    Later(c2, p2, f[1], f[2]) => <<c2, p2>> \in called

\* the first pair of a two-chunk file failed and the file was finished
C2_Witness ==
    /\ fstatus = "completed" /\ pc # "open"
    /\ <<1, 1>> \in failed /\ <<2, 2>> \in called

\* the record the specification gives a content that is not YAML
YamlFailure(raw) == [error |-> "YAML parsing failed", raw_output |-> raw]

\* the loop stands right after the pair recorded in last: at the next
\* prompt, or at the next chunk when that was the chunk's last prompt
AtNextPair ==
    \/ /\ pc \in {"api", "returned"}
       /\ chunk_idx = last.c /\ i = last.p + 1
    \/ /\ last.p = Len(prompts) /\ chunk_idx = last.c + 1
       /\ \/ pc = "chunk"
          \/ pc \in {"api", "returned"} /\ i = 1
          \/ fstatus \in {"completed", "echo_failed"}

\* the most recent pair of the file in progress got a content that is not
\* YAML
GotBadYaml == last.kind \in {"yaml_failed", "yaml_failed_unsaved"} /\ pc # "open"

\* C3 as stated: a content that is not YAML leaves exactly
\* {error: "YAML parsing failed", raw_output: content} under the pair's key
\* and in the pair's artifact, and the loop goes on.
C3_Original ==
    GotBadYaml =>
        /\ last.key = PairKey(file_path, last.c, last.p)
        /\ last.key \in DOMAIN file_results
        /\ file_results[last.key] = YamlFailure(last.raw)
        /\ last.key \in DOMAIN artifacts
        /\ artifacts[last.key] = yaml_dump(YamlFailure(last.raw))
        /\ AtNextPair

\* C3 as amended: when the artifact is written, the record under the key
\* and in the artifact is the YAML-failure record; when the write raises,
\* the handler has replaced the stored record by {error: reason}; the loop
\* goes on either way.
C3_YamlFailureRecorded ==
    GotBadYaml =>
        /\ last.key = PairKey(file_path, last.c, last.p)
        /\ last.key \in DOMAIN file_results
        /\ last.kind = "yaml_failed" =>
                /\ file_results[last.key] = YamlFailure(last.raw)
                /\ last.key \in DOMAIN artifacts
                /\ artifacts[last.key] = yaml_dump(YamlFailure(last.raw))
        /\ last.kind = "yaml_failed_unsaved" =>
                file_results[last.key] = [error |-> WriteError]
        /\ AtNextPair

\* the YAML-failure record is stored and written, the next prompt is called
C3_Witness ==
    /\ last.kind = "yaml_failed" /\ pc = "api" /\ i = last.p + 1
    /\ file_results[last.key] = YamlFailure("verdict: [ok")

\* the keys of the pairs of a set of chunks
KeysOf(path, cs) ==
    {PairKey(path, c, p) : c \in cs, p \in 1..Len(prompts)}

\* C4 as stated: the mapping process_file returns has exactly the keys of
\* the C * P pairs; an empty file gives no key and no API call.
C4_Original ==
    Returned =>
        /\ DOMAIN file_results = KeysOf(file_path, 1..NumChunks)
        /\ NumChunks = 0 => called = {}

\* C4 as amended: the mapping has exactly the keys of the pairs of the
\* chunks that precede the first chunk whose echo file cannot be written
\* (all C * P when every echo file is written), and exactly those pairs
\* were sent to the API; an empty file gives no key and no API call.
C4_KeysOfFile ==
    Returned =>
        /\ DOMAIN file_results = KeysOf(file_path, Echoable(file_path))
        /\ called = Echoable(file_path) \X (1..Len(prompts))
        /\ Cardinality(DOMAIN file_results)
               = Cardinality(Echoable(file_path)) * Len(prompts)
        /\ NumChunks = 0 => called = {} /\ DOMAIN file_results = {}

\* two chunks, two prompts, four keys, one of them an error entry
C4_Witness ==
    /\ fstatus = "completed" /\ pc # "open"
    /\ NumChunks = 2 /\ Len(prompts) = 2
    /\ Cardinality(DOMAIN file_results) = 4 /\ failed # {}

\* C5: at the end of a run every record of the combined mapping is also in
\* its own artifact result_{key}.yaml, which holds the same record.
C5_EveryRecordPersisted ==
    pc = "done" =>
        \A k \in DOMAIN results :
            k \in DOMAIN artifacts /\ artifacts[k] = yaml_dump(results[k])

\* the regular files a source stands for
FilesOf(source) ==
    IF source \in Dirs THEN FilesUnder(source)
    ELSE IF source \in Files THEN {source}
    ELSE {}

\* the number of calls of process_file a list of sources asks for
RECURSIVE FileCount(_)
FileCount(sources) ==
    IF sources = <<>> THEN 0
    ELSE Cardinality(FilesOf(Head(sources))) + FileCount(Tail(sources))

\* the union of a sequence of mappings, the last mapping that has a key
\* giving its value
MergedMaps(ms) ==
    [k \in UNION {DOMAIN ms[j] : j \in 1..Len(ms)} |->
        LET J == CHOOSE j \in 1..Len(ms) :
                    /\ k \in DOMAIN ms[j]
                    /\ \A j2 \in 1..Len(ms) : k \in DOMAIN ms[j2] => j2 <= j
        IN  ms[J][k]]

\* what C6 says of every state of a run
C6_State ==
    /\ Len(visited) <= Len(input_sources)
    /\ visited = SubSeq(input_sources, 1, Len(visited))
    /\ results = MergedMaps(file_maps)
    /\ pc # "done" => combined_writes = 0 /\ combined = NoArtifact
    /\ pc = "done" =>
            /\ visited = input_sources
            /\ Len(file_maps) = FileCount(input_sources)
            /\ combined_writes = 1
            /\ combined = <<"yaml", MergedMaps(file_maps)>>

C7_DirectoryAsFiles ==
    (run = 2 /\ pc = "done") => DOMAIN results = prev_keys

\* directory d, then its two files listed: six keys both times
C7_Witness ==
    /\ run = 2 /\ pc = "done" /\ prev_sources = <<"d">>
    /\ Len(input_sources) = 2 /\ Len(prompts) = 2
    /\ Cardinality(prev_keys) = 6 /\ DOMAIN results = prev_keys

\* every key and echo file name the pairs and chunks of a file could get
AnyKeyOf(path) ==
    {PairKey(path, c, p) : c \in 0..Len(FileChunks[path]), p \in 0..Len(prompts)}
AnyEchoOf(path) ==
    {"chunk_" \o ToString(c) \o "_" \o Stem(path) \o ".txt" :
        c \in 0..Len(FileChunks[path])}

\* C8: an unreadable file never gets a key in the file's or the combined
\* mapping, an echo file, a result artifact or an API call, an invalid
\* source leaves the run's state alone, and at the end of the run every
\* source has been visited and every readable file the sources stand for
\* has the keys of its pairs in the combined mapping.
C8_SkippedAndContinued ==
    /\ \A f \in unreadable :
            /\ DOMAIN results \cap AnyKeyOf(f) = {}
            /\ DOMAIN artifacts \cap AnyKeyOf(f) = {}
            /\ echoes \cap AnyEchoOf(f) = {}
            /\ (file_path = f /\ pc # "open") =>
                    file_results = EmptyDict /\ called = {}
    /\ pc \in {"chunk", "api", "returned"} =>
            file_path \in Files \ unreadable
    /\ Len(file_maps) <= FileCount(visited)
    /\ pc = "done" =>
            /\ visited = input_sources
            /\ \A k \in 1..Len(input_sources) : \A f \in FilesOf(input_sources[k]) :
                    f \notin unreadable =>
                        KeysOf(f, Echoable(f)) \subseteq DOMAIN results

\* an invalid source, then a directory with an unreadable file: the other
\* file of the directory has its keys
C8_Witness ==
    /\ pc = "done" /\ input_sources = <<"nosuch", "d">>
    /\ unreadable = {"d/a.py"}
    /\ DOMAIN results = KeysOf("d/sub/b.py", {1}) /\ Len(prompts) = 2

====
